---- MODULE Spec2Model ----
(***************************************************************************)
(* Host-side toolchain of the design3 broadcast scheme: the range-to-cover *)
(* algorithm (vertices_for_range), the KDF tree (derive_tree_key), the     *)
(* subscription builder and the frame encoder.                             *)
(*                                                                         *)
(* Python integers are unbounded.  Timestamps go up to 2^64 - 1, beyond    *)
(* the integers TLC computes with, so a non-negative Python int is         *)
(* modelled as the set of the positions of its 1 bits (5 = {0, 2},         *)
(* 2^64 - 1 = 0..63); the operators below are Python's &, >>, <<, +1, -1   *)
(* and < on that representation.  Small quantities (bits, lengths,         *)
(* channel and device ids) are ordinary integers.                          *)
(***************************************************************************)
EXTENDS Integers, Sequences, FiniteSets, TLC

VARIABLES
    call,                \* the function called and its arguments
    pc,                  \* where the call stands
    ret,                 \* its outcome: the value returned or the exception
    start, end, bits, keys_front, keys_back,    \* vertices_for_range locals
    secrets, kch, vertices, ktree,     \* gen_embeddable_subscription locals
    valid_subscription,                \* gen_subscription local
    encoder                            \* the Encoder object (self)

vars == <<call, pc, ret, start, end, bits, keys_front, keys_back,
          secrets, kch, vertices, ktree, valid_subscription, encoder>>

coverVars == <<start, end, bits, keys_front, keys_back>>

subVars == <<secrets, kch, vertices, ktree, valid_subscription>>

(***************************************************************************)
(* Bounds of the model: which endpoints the inputs are drawn from.         *)
(***************************************************************************)
\* endpoints 0..MaxSmall
MaxSmall == 11
\* endpoints 2^64-1-k, 2^63-1-k and 2^63+k for k in 0..MaxGap
MaxGap == 1

(***************************************************************************)
(* Python int, as the set of positions of the 1 bits.                      *)
(***************************************************************************)
Max(S) == CHOOSE m \in S : \A x \in S : x <= m

Min(S) == CHOOSE m \in S : \A x \in S : m <= x

\* the int n (0 <= n < 2^31) in the representation
FromNat(n) == {i \in 0..30 : (n \div (2 ^ i)) % 2 = 1}

\* 1 << n
Pow2(n) == {n}

\* x & 1
LowBit(x) == IF 0 \in x THEN 1 ELSE 0

\* x >> 1
Shr1(x) == {i - 1 : i \in x \ {0}}

\* x << n
Shl(x, n) == {i + n : i \in x}

\* x & y
BitAnd(x, y) == x \cap y

\* x + 1: the lowest run of 1 bits is cleared and the 0 above it set
Inc(x) ==
    LET k == Min({i \in 0..Cardinality(x) : i \notin x})
    IN  (x \ (0..(k - 1))) \cup {k}

\* x - 1, for x > 0: the lowest 1 bit is cleared and the 0 bits below it set
Dec(x) ==
    LET k == Min(x)
    IN  (x \ {k}) \cup (0..(k - 1))

\* x < y: at the highest bit where they differ, y has the 1
Less(x, y) ==
    /\ x # y
    /\ Max((x \ y) \cup (y \ x)) \in y

\* 0 <= x < (1 << n)
FitsBits(x, n) == \A i \in x : i < n

Reverse(s) == [i \in 1..Len(s) |-> s[Len(s) + 1 - i]]

(***************************************************************************)
(* Outcome of a call: a returned value or a raised exception.              *)
(***************************************************************************)
Return(v) == [status |-> "return", value |-> v]

Raise(e) == [status |-> "raise", value |-> e]

NoOutcome == [status |-> "running", value |-> <<>>]

\* an exception raised by a step propagates; otherwise the rest runs
Try(r, Rest(_)) == IF r.status = "raise" THEN r ELSE Rest(r.value)

(***************************************************************************)
(* bytes.  A bytes value is a sequence of pieces, each of a known length:  *)
(* a literal byte, a run of zero bytes, an unsigned integer field, or the  *)
(* output of a primitive (random draw, hash, MAC, ciphertext, signature).  *)
(* b"" is <<>>, + is \o.  The primitives are modelled as injective         *)
(* functions of their inputs; distinct random draws are distinct.          *)
(***************************************************************************)
Piece(n, d) == [len |-> n, data |-> d]

Byte(b) == Piece(1, [byte |-> b])

Zeros(n) == IF n = 0 THEN <<>> ELSE <<Piece(n, [zeros |-> n])>>

RECURSIVE ByteLen(_)
\* len(b)
ByteLen(b) == IF b = <<>> THEN 0 ELSE Head(b).len + ByteLen(Tail(b))

RECURSIVE TakeBytes(_, _)
\* b[:n]; a piece cut in the middle is kept as "the first n bytes of" it
TakeBytes(b, n) ==
    IF n = 0 \/ b = <<>> THEN <<>>
    ELSE IF Head(b).len <= n
         THEN <<Head(b)>> \o TakeBytes(Tail(b), n - Head(b).len)
         ELSE <<Piece(n, [first |-> n, of |-> Head(b)])>>

RECURSIVE DropBytes(_, _)
\* b[n:]
DropBytes(b, n) ==
    IF n = 0 \/ b = <<>> THEN b
    ELSE IF Head(b).len <= n
         THEN DropBytes(Tail(b), n - Head(b).len)
         ELSE <<Piece(Head(b).len - n, [after |-> n, of |-> Head(b)])>>
                  \o Tail(b)

\* b[off : off + n]
Slice(b, off, n) == TakeBytes(DropBytes(b, off), n)

(***************************************************************************)
(* cstruct.py: little-endian struct.Struct packing.                        *)
(* A format is a sequence of fields [code, n]: "s" (n bytes), "I" (u32),   *)
(* "Q" (u64).  Integer values are Python ints (sets of bit positions).     *)
(***************************************************************************)
FieldS(n) == [code |-> "s", n |-> n]

FieldI == [code |-> "I", n |-> 4]

FieldQ == [code |-> "Q", n |-> 8]

\* mutant: an "s" field keeps the whole value, however long
PackS_NoTruncate(b, n) == b \o Zeros(IF ByteLen(b) < n THEN n - ByteLen(b) ELSE 0)

\* struct "ns": the value is cut to n bytes or right-padded with zero bytes
PackS(b, n) ==
    LET t == TakeBytes(b, n)
    IN  t \o Zeros(n - ByteLen(t))

\* struct "I" and "Q": an unsigned field of f.n bytes holding v
PackUInt(v, f) == <<Piece(f.n, [uint |-> v])>>

\* struct.error unless 0 <= v < 2^(8 * size)
UIntInRange(v, f) == FitsBits(v, 8 * f.n)

FieldOk(f, v) == f.code = "s" \/ UIntInRange(v, f)

PackField(f, v) == IF f.code = "s" THEN PackS(v, f.n) ELSE PackUInt(v, f)

RECURSIVE PackFields(_, _)
PackFields(fmt, vals) ==
    IF fmt = <<>> THEN <<>>
    ELSE PackField(Head(fmt), Head(vals)) \o PackFields(Tail(fmt), Tail(vals))

\* st.pack(*self): Return(bytes), or Raise("struct.error")
StructPack(fmt, vals) ==
    IF \A i \in 1..Len(fmt) : FieldOk(fmt[i], vals[i])
    THEN Return(PackFields(fmt, vals))
    ELSE Raise("struct.error")

RECURSIVE StructSize(_)
\* st.size
StructSize(fmt) == IF fmt = <<>> THEN 0 ELSE Head(fmt).n + StructSize(Tail(fmt))

\* byte offset of field i of the format
FieldOffset(fmt, i) == StructSize(SubSeq(fmt, 1, i - 1))

\* the bytes of field i in a packed struct
FieldBytes(fmt, b, i) == Slice(b, FieldOffset(fmt, i), fmt[i].n)

(***************************************************************************)
(* crypto_wrappers.py                                                      *)
(***************************************************************************)
SYMMETRIC_KEY_LEN == 32
SYMMETRIC_NONCE_LEN == 24
SYMMETRIC_MAC_LEN == 16
SYMMETRIC_METADATA_LEN == SYMMETRIC_NONCE_LEN + SYMMETRIC_MAC_LEN
TREE_KEY_LEN == 16
TREE_LEFT_RIGHT_LEN == 32
PUBLIC_KEY_LEN == 64
PRIVATE_KEY_LEN == 64
SIGNATURE_LEN == 64

\* monocypher.generate_key(n): the draw numbered id of the random source
generate_key(id, n) == <<Piece(n, [random |-> id])>>

\* encrypt_symmetric(plaintext, sym_key), the nonce being the draw `nonce`:
\* mac + nonce + ct
encrypt_symmetric(plaintext, sym_key, nonce) ==
    IF ByteLen(sym_key) # SYMMETRIC_KEY_LEN THEN Raise("AssertionError")
    ELSE LET arg == [key |-> sym_key, nonce |-> nonce, plaintext |-> plaintext]
             mac == <<Piece(SYMMETRIC_MAC_LEN, [mac |-> arg])>>
             ct == <<Piece(ByteLen(plaintext), [ct |-> arg])>>
             ciphertext == mac \o nonce \o ct
         IN  IF ByteLen(ciphertext) = ByteLen(plaintext) + SYMMETRIC_METADATA_LEN
             THEN Return(ciphertext)
             ELSE Raise("AssertionError")

\* sign_asymmetric(message, secret_key)
sign_asymmetric(message, secret_key) ==
    IF ByteLen(secret_key) # PRIVATE_KEY_LEN THEN Raise("AssertionError")
    ELSE Return(<<Piece(SIGNATURE_LEN,
                        [sig |-> [key |-> secret_key, message |-> message]])>>)

\* hash_length(message, hash_size): Blake2b with that digest size
hash_length(message, hash_size) ==
    <<Piece(hash_size, [blake2b |-> message, size |-> hash_size])>>

TreeChildTmp == <<FieldS(TREE_KEY_LEN), FieldS(TREE_LEFT_RIGHT_LEN)>>

\* kdf_tree_child(parent_key, left_right)
kdf_tree_child(parent_key, left_right) ==
    IF ByteLen(parent_key) # TREE_KEY_LEN
         \/ ByteLen(left_right) # TREE_LEFT_RIGHT_LEN
    THEN Raise("AssertionError")
    ELSE LET packed == StructPack(TreeChildTmp, <<parent_key, left_right>>)
         IN  Return(hash_length(packed.value, TREE_KEY_LEN))

\* kdf_tree_leaf(leaf_key)
kdf_tree_leaf(leaf_key) ==
    IF ByteLen(leaf_key) # TREE_KEY_LEN THEN Raise("AssertionError")
    ELSE Return(hash_length(leaf_key, SYMMETRIC_KEY_LEN))

\* kdf_id(id_root_key, decoder_id): hash of struct.pack("<I32s", ...)
kdf_id(id_root_key, decoder_id) ==
    IF ByteLen(id_root_key) # SYMMETRIC_KEY_LEN \/ ~FitsBits(decoder_id, 32)
    THEN Raise("AssertionError")
    ELSE LET packed == StructPack(<<FieldI, FieldS(SYMMETRIC_KEY_LEN)>>,
                                  <<decoder_id, id_root_key>>)
         IN  Return(hash_length(packed.value, SYMMETRIC_KEY_LEN))

(***************************************************************************)
(* gen_secrets.py: Vertex                                                  *)
(***************************************************************************)
\* a Vertex object
Vertex(prefix, nbits) == [prefix |-> prefix, bits |-> nbits]

\* Vertex.__init__: assert 0 <= self.prefix < (1 << self.bits); the shift
\* raises ValueError (negative shift count) when bits is negative
VertexInit(prefix, nbits) ==
    IF nbits < 0 THEN Raise("ValueError")
    ELSE IF ~FitsBits(prefix, nbits) THEN Raise("AssertionError")
    ELSE Return(Vertex(prefix, nbits))

(***************************************************************************)
(* gen_secrets.py: GlobalSecrets                                           *)
(***************************************************************************)
\* base64.b64encode(b).decode("ascii"): the text that encodes b
to_base64(b) == [base64 |-> b]

\* base64.b64decode(s)
from_base64(s) == s.base64

RECURSIVE IntToStr(_)
\* str(n) for n >= 0, as the sequence of its decimal digits (a JSON key)
IntToStr(n) == IF n < 10 THEN <<n>> ELSE Append(IntToStr(n \div 10), n % 10)

RECURSIVE StrToInt(_)
\* int(s)
StrToInt(s) ==
    IF Len(s) = 1 THEN s[1]
    ELSE 10 * StrToInt(SubSeq(s, 1, Len(s) - 1)) + s[Len(s)]

\* A dict is the sequence of its items [key, value] in insertion order,
\* no key twice.
DictKeys(d) == {d[i].key : i \in 1..Len(d)}

\* d[k]
DictGet(d, k) == d[CHOOSE i \in 1..Len(d) : d[i].key = k].value

\* d[k] = v: a key already there keeps its place and takes the new value
DictSet(d, k, v) ==
    IF k \in DictKeys(d)
    THEN [i \in 1..Len(d) |-> IF d[i].key = k THEN [key |-> k, value |-> v]
                                ELSE d[i]]
    ELSE Append(d, [key |-> k, value |-> v])

RECURSIVE DictFromItems(_)
\* the dict a comprehension (or json.loads, for an object) builds from the
\* items in the order given: of two items with one key the later value wins
DictFromItems(items) ==
    IF Len(items) = 0 THEN <<>>
    ELSE LET last == items[Len(items)]
         IN  DictSet(DictFromItems(SubSeq(items, 1, Len(items) - 1)),
                     last.key, last.value)

\* mutant: channel 0 is not added
KeyDict_NoZero(channels, first, n) ==
    DictFromItems([i \in 1..Len(channels) |->
                      [key |-> channels[i],
                       value |-> generate_key(first - 1 + i, n)]])

\* {ch: generate_key(n) for ch in channels + [0]}, the draws numbered from
\* first: a channel listed twice keeps the key drawn last
KeyDict(channels, first, n) ==
    LET l == channels \o <<0>>
    IN  DictFromItems([i \in 1..Len(l) |->
                          [key |-> l[i],
                           value |-> generate_key(first - 1 + i, n)]])

\* GlobalSecrets.generate(channels)
generate(channels) ==
    LET m == Len(channels) + 1
    IN  [enc_private_key |-> <<Piece(PRIVATE_KEY_LEN, [signing_key |-> 0])>>,
         enc_public_key |-> <<Piece(PUBLIC_KEY_LEN, [public_key |-> 0])>>,
         id_root_key |-> generate_key(2 * m + 1, SYMMETRIC_KEY_LEN),
         channel_keys |-> KeyDict(channels, 1, SYMMETRIC_KEY_LEN),
         left_tree_key |-> generate_key(2 * m + 2, TREE_LEFT_RIGHT_LEN),
         right_tree_key |-> generate_key(2 * m + 3, TREE_LEFT_RIGHT_LEN),
         tree_root_keys |-> KeyDict(channels, m + 1, TREE_KEY_LEN),
         symbol_shimmy_root_key |-> generate_key(2 * m + 4, SYMMETRIC_KEY_LEN)]

\* {ch: to_base64(k) for ch, k in d.items()} as json.dumps writes it: the
\* keys of a JSON object are strings, and its members are in the order of
\* the dict
JsonDict(d) ==
    [i \in 1..Len(d) |->
        [key |-> IntToStr(d[i].key), value |-> to_base64(d[i].value)]]

\* GlobalSecrets.serialize
serialize(self) ==
    [ENCODER_PRIVATE_KEY |-> to_base64(self.enc_private_key),
     ENCODER_PUBLIC_KEY |-> to_base64(self.enc_public_key),
     ID_ROOT_KEY |-> to_base64(self.id_root_key),
     CHANNEL_KEYS |-> JsonDict(self.channel_keys),
     LEFT_TREE_KEY |-> to_base64(self.left_tree_key),
     RIGHT_TREE_KEY |-> to_base64(self.right_tree_key),
     TREE_ROOT_KEYS |-> JsonDict(self.tree_root_keys),
     SYMBOL_SHIMMY_ROOT_KEY |-> to_base64(self.symbol_shimmy_root_key)]

\* {int(ch): from_base64(k) for ch, k in j.items()}, j being the dict
\* json.loads makes of the object's members: of two keys that parse to the
\* same int the later one wins
PyDict(j) ==
    LET loaded == DictFromItems(j)
    IN  DictFromItems([i \in 1..Len(loaded) |->
                          [key |-> StrToInt(loaded[i].key),
                           value |-> from_base64(loaded[i].value)]])

\* mutant: the two per-channel maps are passed to cls(...) in each other's
\* position
deserialize_MapsSwapped(b) ==
    [enc_private_key |-> from_base64(b.ENCODER_PRIVATE_KEY),
     enc_public_key |-> from_base64(b.ENCODER_PUBLIC_KEY),
     id_root_key |-> from_base64(b.ID_ROOT_KEY),
     channel_keys |-> PyDict(b.TREE_ROOT_KEYS),
     left_tree_key |-> from_base64(b.LEFT_TREE_KEY),
     right_tree_key |-> from_base64(b.RIGHT_TREE_KEY),
     tree_root_keys |-> PyDict(b.CHANNEL_KEYS),
     symbol_shimmy_root_key |-> from_base64(b.SYMBOL_SHIMMY_ROOT_KEY)]

\* GlobalSecrets.deserialize
deserialize(b) ==
    [enc_private_key |-> from_base64(b.ENCODER_PRIVATE_KEY),
     enc_public_key |-> from_base64(b.ENCODER_PUBLIC_KEY),
     id_root_key |-> from_base64(b.ID_ROOT_KEY),
     channel_keys |-> PyDict(b.CHANNEL_KEYS),
     left_tree_key |-> from_base64(b.LEFT_TREE_KEY),
     right_tree_key |-> from_base64(b.RIGHT_TREE_KEY),
     tree_root_keys |-> PyDict(b.TREE_ROOT_KEYS),
     symbol_shimmy_root_key |-> from_base64(b.SYMBOL_SHIMMY_ROOT_KEY)]

\* gen_secrets(channels)
gen_secrets(channels) == serialize(generate(channels))

\* GlobalSecrets.derive_id_key
derive_id_key(self, device_id) ==
    IF ~FitsBits(device_id, 32) THEN Raise("AssertionError")
    ELSE kdf_id(self.id_root_key, device_id)

\* 0 <= ch < 2**32, for a channel id held as an ordinary integer
ChannelAssert(ch) == ch >= 0 /\ ch \div 65536 < 65536

\* mutant: the walk starts one bit too low and so ends below bit 0
FirstBitmask_Low(nbits) == IF nbits >= 2 THEN Pow2(nbits - 2) ELSE {}

\* bitmask = 1 << (vertex.bits - 1)
FirstBitmask(nbits) == Pow2(nbits - 1)

\* mutant: left and right are exchanged
DirectionKey_Swapped(self, prefix, bitmask) ==
    IF BitAnd(prefix, bitmask) = {} THEN self.right_tree_key
    ELSE self.left_tree_key

\* curr_direction = vertex.prefix & bitmask: the direction key of this step
DirectionKey(self, prefix, bitmask) ==
    IF BitAnd(prefix, bitmask) = {} THEN self.left_tree_key
    ELSE self.right_tree_key

RECURSIVE DeriveLoop(_, _, _, _, _)
\* for _ in range(vertex.bits): ...; bitmask >>= 1
DeriveLoop(self, key, prefix, bitmask, n) ==
    IF n = 0 THEN Return(key)
    ELSE LET child == kdf_tree_child(key, DirectionKey(self, prefix, bitmask))
         IN  IF child.status = "raise" THEN child
             ELSE DeriveLoop(self, child.value, prefix, Shr1(bitmask), n - 1)

\* GlobalSecrets.derive_tree_key(ch, vertex)
derive_tree_key(self, ch, vertex) ==
    IF ~ChannelAssert(ch) \/ vertex.bits < 0
         \/ ~FitsBits(vertex.prefix, vertex.bits)
         \/ ch \notin DictKeys(self.tree_root_keys)
    THEN Raise("AssertionError")
    ELSE IF vertex.bits = 0 THEN Return(DictGet(self.tree_root_keys, ch))
    ELSE DeriveLoop(self, DictGet(self.tree_root_keys, ch), vertex.prefix,
                    FirstBitmask(vertex.bits), vertex.bits)

(***************************************************************************)
(* gen_subscription.py: vertices_for_range                                 *)
(* The loop state is the record l of the function's locals.                *)
(***************************************************************************)
TIMESTAMP_BITS == 64

LoopEntry(s, e) ==
    [start |-> s, end |-> e, bits |-> TIMESTAMP_BITS,
     keys_front |-> <<>>, keys_back |-> <<>>]

\* mutant: while start < end
LoopCond_Less(l) == Less(l.start, l.end)

\* while start != end
LoopCond(l) == l.start # l.end

\* assert start < end
LoopAssert(l) == Less(l.start, l.end)

\* mutant: a two-timestamp block is not moved up
CanMoveUp_NotAdjacent(s, e) == LowBit(s) = 0 /\ LowBit(e) = 1 /\ Inc(s) # e

\* if start & 1 == 0 and end & 1 == 1
CanMoveUp(s, e) == LowBit(s) = 0 /\ LowBit(e) = 1

\* mutant: the elif tests end instead of start
StartIsOdd_TestsEnd(s, e) == LowBit(e) = 0

\* elif start & 1 == 1
StartIsOdd(s, e) == LowBit(s) = 1

\* mutant: bits is not decremented
MoveUpStep_KeepsBits(l) ==
    [l EXCEPT !.start = Shr1(@), !.end = Shr1(@)]

\* mutant: bits is counted up
MoveUpStep_BitsUp(l) ==
    [l EXCEPT !.start = Shr1(@), !.end = Shr1(@), !.bits = @ + 1]

\* start >>= 1; end >>= 1; bits -= 1
MoveUpStep(l) ==
    [l EXCEPT !.start = Shr1(@), !.end = Shr1(@), !.bits = @ - 1]

\* keys_front.append(Vertex(start, bits)); start += 1
PackStartStep(l) ==
    [l EXCEPT !.keys_front = Append(@, Vertex(l.start, l.bits)),
              !.start = Inc(@)]

\* mutant: end is decremented before it is packaged
PackEndStep_DecFirst(l) ==
    [l EXCEPT !.keys_back = Append(@, Vertex(Dec(l.end), l.bits)),
              !.end = Dec(@)]

\* keys_back.append(Vertex(end, bits)); end -= 1
PackEndStep(l) ==
    [l EXCEPT !.keys_back = Append(@, Vertex(l.end, l.bits)),
              !.end = Dec(@)]

\* mutant: keys_back is not reversed
ReturnList_NoReverse(l) ==
    l.keys_front \o <<Vertex(l.start, l.bits)>> \o l.keys_back

\* return keys_front + [Vertex(start, bits)] + keys_back[::-1]
ReturnList(l) ==
    l.keys_front \o <<Vertex(l.start, l.bits)>> \o Reverse(l.keys_back)

\* One pass through the loop body from the loop state l (LoopCond(l) holds):
\* the next loop state, or the exception raised.
LoopBody(l) ==
    IF ~LoopAssert(l) THEN Raise("AssertionError")
    ELSE IF CanMoveUp(l.start, l.end) THEN Return(MoveUpStep(l))
    ELSE IF StartIsOdd(l.start, l.end)
         THEN Try(VertexInit(l.start, l.bits),
                  LAMBDA v : Return(PackStartStep(l)))
         ELSE Try(VertexInit(l.end, l.bits),
                  LAMBDA v : Return(PackEndStep(l)))

\* The statement after the loop.
LoopExit(l) ==
    Try(VertexInit(l.start, l.bits), LAMBDA v : Return(ReturnList(l)))

\* One more iteration from the outcome o of the iterations so far; o stays
\* as it is once the loop has raised or its condition is false.
Advance(o) ==
    IF o.status = "raise" \/ ~LoopCond(o.value) THEN o ELSE LoopBody(o.value)

Advance4(o) == Advance(Advance(Advance(Advance(o))))

Advance16(o) == Advance4(Advance4(Advance4(Advance4(o))))

RECURSIVE WhileLoop(_)
\* The loop and the return statement, from the outcome o of the iterations
\* so far (sixteen iterations are taken per recursion step, which keeps the
\* evaluation stack shallow for the 190 iterations of the longest runs).
WhileLoop(o) ==
    IF o.status = "raise" THEN o
    ELSE IF ~LoopCond(o.value) THEN LoopExit(o.value)
    ELSE WhileLoop(Advance16(o))

\* vertices_for_range(start, end): Return(list of Vertex) or Raise(...)
vertices_for_range(s, e) == WhileLoop(Return(LoopEntry(s, e)))

(***************************************************************************)
(* gen_subscription.py: the records and the subscription builder.          *)
(***************************************************************************)
\* 0x41594E42
SUBSCRIPTION_MAGIC == 1096371778

\* mutant: one key too few
MAX_TREE_KEYS_125 == 2 * (64 - 1) - 1

MAX_TREE_KEYS == 126

\* ktree, kch, start, end, channel, key_count, magic, pad
ValidSubscription ==
    <<FieldS(MAX_TREE_KEYS * TREE_KEY_LEN), FieldS(SYMMETRIC_KEY_LEN),
      FieldQ, FieldQ, FieldI, FieldI, FieldI, FieldS(4)>>

\* id, ciphertext
SubscriptionUpdatePayload ==
    <<FieldI, FieldS(SYMMETRIC_METADATA_LEN + StructSize(ValidSubscription))>>

\* payload, sig
SubscriptionUpdate ==
    <<FieldS(StructSize(SubscriptionUpdatePayload)), FieldS(SIGNATURE_LEN)>>

RECURSIVE JoinFrom_Prepend(_, _)
\* mutant: each key is put in front of the keys already there
JoinFrom_Prepend(bs, k) ==
    IF k > Len(bs) THEN <<>> ELSE JoinFrom_Prepend(bs, k + 1) \o bs[k]

RECURSIVE JoinFrom(_, _)
\* bs[k] + bs[k + 1] + ... for a list bs of bytes values
JoinFrom(bs, k) == IF k > Len(bs) THEN <<>> ELSE bs[k] \o JoinFrom(bs, k + 1)

\* ktree = b""; for v in vertices: ktree += secrets.derive_tree_key(channel, v)
\* (the first derivation that raises ends the loop)
DeriveKeys(self, channel, vs) ==
    LET keys == [k \in 1..Len(vs) |-> derive_tree_key(self, channel, vs[k])]
        bad == {k \in 1..Len(vs) : keys[k].status = "raise"}
    IN  IF bad # {} THEN keys[Min(bad)]
        ELSE Return(JoinFrom([k \in 1..Len(vs) |-> keys[k].value], 1))

\* the local ktree when the loop over vs ends: the keys of the vertices
\* before the first one whose derivation raises, of all of them if none does
KtreeAfterLoop(self, channel, vs) ==
    LET keys == [k \in 1..Len(vs) |-> derive_tree_key(self, channel, vs[k])]
        bad == {k \in 1..Len(vs) : keys[k].status = "raise"}
        n == IF bad = {} THEN Len(vs) ELSE Min(bad) - 1
    IN  IF n = 0 THEN <<>>
        ELSE JoinFrom([k \in 1..n |-> keys[k].value], 1)

\* gen_embeddable_subscription after its loop: the length assertion and
\* ValidSubscription(...).pack()
PackValidSubscription(ktree_, kch_, vertices_, start_, end_, channel) ==
    IF ByteLen(ktree_) # Len(vertices_) * TREE_KEY_LEN
    THEN Raise("AssertionError")
    ELSE StructPack(ValidSubscription,
                    <<ktree_, kch_, start_, end_, FromNat(channel),
                      FromNat(Len(vertices_)), FromNat(SUBSCRIPTION_MAGIC),
                      <<>>>>)

\* gen_embeddable_subscription(secrets, device_id, start, end, channel) as
\* one function of its arguments
gen_embeddable_subscription(secrets_bytes, device_id, s, e, channel) ==
    LET secrets_ == deserialize(secrets_bytes)
    IN  IF channel \notin DictKeys(secrets_.channel_keys) THEN Raise("KeyError")
        ELSE Try(vertices_for_range(s, e), LAMBDA vertices_ :
             Try(DeriveKeys(secrets_, channel, vertices_), LAMBDA ktree_ :
             PackValidSubscription(ktree_, DictGet(secrets_.channel_keys, channel),
                                   vertices_, s, e, channel)))

\* mutant: the signature is made over the ciphertext alone
SignSubscription_SignsCiphertext(secrets_bytes, device_id, valid_subscription_, nonce) ==
    LET secrets_ == deserialize(secrets_bytes)
    IN  Try(derive_id_key(secrets_, device_id), LAMBDA kid :
        Try(encrypt_symmetric(valid_subscription_, kid, nonce),
            LAMBDA encrypted_subscription :
        Try(StructPack(SubscriptionUpdatePayload,
                       <<device_id, encrypted_subscription>>),
            LAMBDA subscription_to_sign :
        Try(sign_asymmetric(encrypted_subscription, secrets_.enc_private_key),
            LAMBDA ke_sig :
        StructPack(SubscriptionUpdate, <<subscription_to_sign, ke_sig>>)))))

\* gen_subscription after gen_embeddable_subscription returned
\* valid_subscription_; nonce is the draw encrypt_symmetric makes
SignSubscription(secrets_bytes, device_id, valid_subscription_, nonce) ==
    LET secrets_ == deserialize(secrets_bytes)
    IN  Try(derive_id_key(secrets_, device_id), LAMBDA kid :
        Try(encrypt_symmetric(valid_subscription_, kid, nonce),
            LAMBDA encrypted_subscription :
        Try(StructPack(SubscriptionUpdatePayload,
                       <<device_id, encrypted_subscription>>),
            LAMBDA subscription_to_sign :
        Try(sign_asymmetric(subscription_to_sign, secrets_.enc_private_key),
            LAMBDA ke_sig :
        StructPack(SubscriptionUpdate, <<subscription_to_sign, ke_sig>>)))))

(***************************************************************************)
(* encoder.py                                                              *)
(***************************************************************************)
MAX_FRAME_SIZE == 64

\* length, frame
FrameData == <<FieldI, FieldS(MAX_FRAME_SIZE)>>

\* timestamp, ciphertext, padding
FrameCh ==
    <<FieldQ, FieldS(SYMMETRIC_METADATA_LEN + StructSize(FrameData)),
      FieldS(4)>>

\* channel_id, enc_frame
FramePacketPayload ==
    <<FieldI, FieldS(SYMMETRIC_METADATA_LEN + StructSize(FrameCh))>>

\* payload, signature
FramePacket ==
    <<FieldS(StructSize(FramePacketPayload)), FieldS(SIGNATURE_LEN)>>

\* Encoder.__init__(secrets)
EncoderNew(secrets_bytes) ==
    LET keys == deserialize(secrets_bytes)
    IN  [keys |-> keys,
         channel_keys |-> keys.channel_keys,
         enc_private_key |-> keys.enc_private_key]

\* if channel not in self.channel_keys
ChannelKnown(self, channel) == channel \in DictKeys(self.channel_keys)

\* mutant: the two encryption keys change places
encode_KeysSwapped(self, channel, frame, timestamp, nonce1, nonce2) ==
    IF ~ChannelKnown(self, channel) THEN Return(<<>>)
    ELSE
    Try(StructPack(FrameData, <<FromNat(ByteLen(frame)), frame>>),
        LAMBDA frame_data :
    Try(VertexInit(timestamp, TIMESTAMP_BITS), LAMBDA frame_vertex :
    Try(derive_tree_key(self.keys, channel, frame_vertex), LAMBDA leaf :
    Try(kdf_tree_leaf(leaf), LAMBDA ktree_ :
    Try(encrypt_symmetric(frame_data, DictGet(self.channel_keys, channel), nonce1),
        LAMBDA enc_frame :
    Try(StructPack(FrameCh, <<timestamp, enc_frame, <<>>>>),
        LAMBDA timestamped_frame :
    Try(encrypt_symmetric(timestamped_frame, ktree_, nonce2),
        LAMBDA enc_timestamp :
    Try(StructPack(FramePacketPayload, <<FromNat(channel), enc_timestamp>>),
        LAMBDA ch_enc_timestamp :
    Try(sign_asymmetric(ch_enc_timestamp, self.keys.enc_private_key),
        LAMBDA signature :
    StructPack(FramePacket, <<ch_enc_timestamp, signature>>))))))))))

\* Encoder.encode(channel, frame, timestamp); nonce1 and nonce2 are the
\* draws of the two encrypt_symmetric calls
encode(self, channel, frame, timestamp, nonce1, nonce2) ==
    IF ~ChannelKnown(self, channel) THEN Return(<<>>)
    ELSE
    Try(StructPack(FrameData, <<FromNat(ByteLen(frame)), frame>>),
        LAMBDA frame_data :
    Try(VertexInit(timestamp, TIMESTAMP_BITS), LAMBDA frame_vertex :
    Try(derive_tree_key(self.keys, channel, frame_vertex), LAMBDA leaf :
    Try(kdf_tree_leaf(leaf), LAMBDA ktree_ :
    Try(encrypt_symmetric(frame_data, ktree_, nonce1), LAMBDA enc_frame :
    Try(StructPack(FrameCh, <<timestamp, enc_frame, <<>>>>),
        LAMBDA timestamped_frame :
    Try(encrypt_symmetric(timestamped_frame, DictGet(self.channel_keys, channel),
                          nonce2),
        LAMBDA enc_timestamp :
    Try(StructPack(FramePacketPayload, <<FromNat(channel), enc_timestamp>>),
        LAMBDA ch_enc_timestamp :
    Try(sign_asymmetric(ch_enc_timestamp, self.keys.enc_private_key),
        LAMBDA signature :
    StructPack(FramePacket, <<ch_enc_timestamp, signature>>))))))))))

(***************************************************************************)
(* Inputs.                                                                 *)
(***************************************************************************)
U64_MAX == 0..(TIMESTAMP_BITS - 1)

RECURSIVE Minus(_, _)
Minus(x, k) == IF k = 0 THEN x ELSE Minus(Dec(x), k - 1)

RECURSIVE Plus(_, _)
Plus(x, k) == IF k = 0 THEN x ELSE Plus(Inc(x), k - 1)

\* The endpoints tried: the small timestamps, those at the top of the u64
\* range, those around 2^63, 2^64 (one past the u64 range) and 2^65 - 1
\* (which takes bits below 0).
TimeSet ==
    {FromNat(n) : n \in 0..MaxSmall}
      \cup {Minus(U64_MAX, k) : k \in 0..MaxGap}
      \cup {Minus(Pow2(TIMESTAMP_BITS - 1), k + 1) : k \in 0..MaxGap}
      \cup {Plus(Pow2(TIMESTAMP_BITS - 1), k) : k \in 0..MaxGap}
      \cup {Pow2(TIMESTAMP_BITS), Dec(Pow2(TIMESTAMP_BITS + 1))}

IsU64(x) == FitsBits(x, TIMESTAMP_BITS)

LessEq(x, y) == x = y \/ Less(x, y)

(***************************************************************************)
(* vertices_for_range run one loop iteration at a time, on its own         *)
(* (SpecCover) or as called by gen_embeddable_subscription (SpecSub).      *)
(***************************************************************************)
Locals ==
    [start |-> start, end |-> end, bits |-> bits,
     keys_front |-> keys_front, keys_back |-> keys_back]

SetLocals(l) ==
    /\ start' = l.start
    /\ end' = l.end
    /\ bits' = l.bits
    /\ keys_front' = l.keys_front
    /\ keys_back' = l.keys_back

\* an exception ends the call (no function here catches one)
Raised(o) ==
    /\ pc' = "raised"
    /\ ret' = o

\* The body's outcome: the locals move on, or the function raises.
Iterate(o) ==
    IF o.status = "raise"
    THEN /\ Raised(o)
         /\ UNCHANGED coverVars
    ELSE /\ pc' = "while"
         /\ SetLocals(o.value)
         /\ UNCHANGED ret

AssertFail ==
    /\ pc = "while"
    /\ LoopCond(Locals)
    /\ ~LoopAssert(Locals)
    /\ Iterate(LoopBody(Locals))
    /\ UNCHANGED <<call, subVars, encoder>>

MoveUp ==
    /\ pc = "while"
    /\ LoopCond(Locals)
    /\ LoopAssert(Locals)
    /\ CanMoveUp(start, end)
    /\ Iterate(LoopBody(Locals))
    /\ UNCHANGED <<call, subVars, encoder>>

PackStart ==
    /\ pc = "while"
    /\ LoopCond(Locals)
    /\ LoopAssert(Locals)
    /\ ~CanMoveUp(start, end)
    /\ StartIsOdd(start, end)
    /\ Iterate(LoopBody(Locals))
    /\ UNCHANGED <<call, subVars, encoder>>

PackEnd ==
    /\ pc = "while"
    /\ LoopCond(Locals)
    /\ LoopAssert(Locals)
    /\ ~CanMoveUp(start, end)
    /\ ~StartIsOdd(start, end)
    /\ Iterate(LoopBody(Locals))
    /\ UNCHANGED <<call, subVars, encoder>>

\* the loop is left: the list goes to the caller
ExitLoop ==
    /\ pc = "while"
    /\ ~LoopCond(Locals)
    /\ LET o == LoopExit(Locals)
       IN  IF o.status = "raise"
           THEN Raised(o) /\ UNCHANGED vertices
           ELSE IF call.fn = "vertices_for_range"
           THEN pc' = "returned" /\ ret' = o /\ UNCHANGED vertices
           ELSE pc' = "for" /\ vertices' = o.value /\ UNCHANGED ret
    /\ UNCHANGED <<call, coverVars, secrets, kch, ktree,
                   valid_subscription, encoder>>

Idle == <<>>

CoverInit ==
    /\ call \in {[fn |-> "vertices_for_range", start |-> s, end |-> e] :
                    s \in TimeSet, e \in TimeSet}
    /\ pc = "while"
    /\ ret = NoOutcome
    /\ start = call.start
    /\ end = call.end
    /\ bits = TIMESTAMP_BITS
    /\ keys_front = <<>>
    /\ keys_back = <<>>
    /\ secrets = Idle /\ kch = Idle /\ vertices = Idle
    /\ ktree = Idle /\ valid_subscription = Idle /\ encoder = Idle

CoverNext == AssertFail \/ MoveUp \/ PackStart \/ PackEnd \/ ExitLoop

SpecCover == CoverInit /\ [][CoverNext]_vars

\* the interpreter keeps executing the loop: a step that can be taken is
\* taken
SpecCoverFair == SpecCover /\ WF_vars(CoverNext)

(***************************************************************************)
(* gen_embeddable_subscription and gen_subscription (SpecSub).             *)
(***************************************************************************)
\* the deployment the subscriptions and frames are made for
DeployedChannels == <<1>>

SecretsFile == gen_secrets(DeployedChannels)

\* channels 0..MaxChannel are asked for
MaxChannel == 2
\* nonces are drawn from MaxNonce + 1 values
MaxNonce == 1
\* endpoints 0..MaxSubSmall of the narrow subscriptions
MaxSubSmall == 6

Nonces == {generate_key([nonce |-> k], SYMMETRIC_NONCE_LEN) : k \in 0..MaxNonce}

\* 0xDEADBEEF
DEADBEEF == {0, 1, 2, 3, 5, 6, 7, 9, 10, 11, 12, 13, 15, 16, 18, 19, 21,
             23, 25, 26, 27, 28, 30, 31}

\* two device ids and 2^32, which is none
DeviceIds == {FromNat(1), DEADBEEF, Pow2(32)}

SmallTimes == {FromNat(n) : n \in 0..MaxSubSmall}

TopTimes == {Minus(U64_MAX, k) : k \in 0..MaxGap}

HALF == Pow2(TIMESTAMP_BITS - 1)

\* The (start, end) tried: every pair of small endpoints and every pair of
\* endpoints at the top of the u64 range (start > end included), the wide
\* ranges that begin at 0 or 1 and end at 2^64 - 1 or 2^64 - 2, the ranges
\* that meet at 2^63, and ranges that end at 2^64.
SubRanges ==
    (SmallTimes \X SmallTimes)
      \cup (TopTimes \X TopTimes)
      \cup ({{}, FromNat(1)} \X {U64_MAX, Minus(U64_MAX, 1)})
      \cup {<<Dec(HALF), HALF>>, <<{}, Dec(HALF)>>, <<HALF, U64_MAX>>,
            <<FromNat(1), HALF>>}
      \cup {<<{}, Pow2(TIMESTAMP_BITS)>>, <<U64_MAX, Pow2(TIMESTAMP_BITS)>>,
            <<{}, Dec(Pow2(TIMESTAMP_BITS + 1))>>}

\* that file with a RIGHT_TREE_KEY of 16 bytes instead of 32
DamagedSecretsFile ==
    [SecretsFile EXCEPT
        !.RIGHT_TREE_KEY = to_base64(generate_key([damaged |-> 0], TREE_KEY_LEN))]

\* calls with the damaged file: the loop over the vertices raises at the
\* first vertex whose path takes a right step
DamagedCalls ==
    {[fn |-> f, secrets |-> DamagedSecretsFile, device_id |-> DEADBEEF,
      start |-> r[1], end |-> r[2], channel |-> 1] :
        f \in {"gen_embeddable_subscription", "gen_subscription"},
        r \in {<<{}, FromNat(2)>>, <<{}, FromNat(1)>>, <<FromNat(1), FromNat(2)>>}}

SubInit ==
    /\ call \in {[fn |-> f, secrets |-> SecretsFile, device_id |-> d,
                  start |-> r[1], end |-> r[2], channel |-> c] :
                    f \in {"gen_embeddable_subscription", "gen_subscription"},
                    d \in DeviceIds, r \in SubRanges, c \in 0..MaxChannel}
                \cup DamagedCalls
    /\ pc = "entry"
    /\ ret = NoOutcome
    /\ start = Idle /\ end = Idle /\ bits = 0
    /\ keys_front = <<>> /\ keys_back = <<>>
    /\ secrets = Idle /\ kch = Idle /\ vertices = Idle
    /\ ktree = Idle /\ valid_subscription = Idle /\ encoder = Idle

\* secrets = GlobalSecrets.deserialize(secrets); kch = ...[channel]; then
\* vertices_for_range(start, end) is entered
SubEntry ==
    /\ pc = "entry"
    /\ call.fn \in {"gen_embeddable_subscription", "gen_subscription"}
    /\ secrets' = deserialize(call.secrets)
    /\ IF call.channel \in DictKeys(secrets'.channel_keys)
       THEN /\ kch' = DictGet(secrets'.channel_keys, call.channel)
            /\ pc' = "while"
            /\ SetLocals(LoopEntry(call.start, call.end))
            /\ UNCHANGED ret
       ELSE /\ Raised(Raise("KeyError"))
            /\ UNCHANGED <<kch, coverVars>>
    /\ UNCHANGED <<call, vertices, ktree, valid_subscription, encoder>>

\* the rest of gen_embeddable_subscription: the keys of the vertices are
\* derived, the ValidSubscription is packed and returned (to
\* gen_subscription, when that is the function called)
BuildSubscription ==
    /\ pc = "for"
    /\ LET k == DeriveKeys(secrets, call.channel, vertices)
           o == Try(k, LAMBDA kt :
                    PackValidSubscription(kt, kch, vertices, call.start,
                                          call.end, call.channel))
       IN  /\ ktree' = IF k.status = "raise"
                     THEN KtreeAfterLoop(secrets, call.channel, vertices)
                     ELSE k.value
           /\ IF o.status = "raise"
              THEN Raised(o) /\ UNCHANGED valid_subscription
              ELSE IF call.fn = "gen_embeddable_subscription"
              THEN pc' = "returned" /\ ret' = o /\ UNCHANGED valid_subscription
              ELSE pc' = "sign" /\ valid_subscription' = o.value
                     /\ UNCHANGED ret
    /\ UNCHANGED <<call, coverVars, secrets, kch, vertices, encoder>>

\* the rest of gen_subscription
Sign ==
    /\ pc = "sign"
    /\ \E nonce \in Nonces :
          ret' = SignSubscription(call.secrets, call.device_id,
                                  valid_subscription, nonce)
    /\ pc' = IF ret'.status = "raise" THEN "raised" ELSE "returned"
    /\ UNCHANGED <<call, coverVars, subVars, encoder>>

SubNext ==
    \/ SubEntry
    \/ AssertFail \/ MoveUp \/ PackStart \/ PackEnd \/ ExitLoop
    \/ BuildSubscription \/ Sign

SpecSub == SubInit /\ [][SubNext]_vars

(***************************************************************************)
(* Encoder.encode (SpecEnc).                                               *)
(***************************************************************************)
\* frames of 0..MAX_FRAME_SIZE + MaxFrameExtra bytes
MaxFrameExtra == 1

\* a frame of n bytes, none of them zero
FrameOfLen(n) == [k \in 1..n |-> Byte(1 + (k % 255))]

EncTimeSet ==
    {{}, FromNat(5), Pow2(TIMESTAMP_BITS - 1), U64_MAX, Pow2(TIMESTAMP_BITS)}

EncInit ==
    /\ call \in {[fn |-> "encode", channel |-> c, frame |-> FrameOfLen(n),
                  timestamp |-> t] :
                    c \in 0..MaxChannel,
                    n \in 0..(MAX_FRAME_SIZE + MaxFrameExtra),
                    t \in EncTimeSet}
    /\ encoder = EncoderNew(SecretsFile)
    /\ pc = "entry"
    /\ ret = NoOutcome
    /\ start = Idle /\ end = Idle /\ bits = 0
    /\ keys_front = <<>> /\ keys_back = <<>>
    /\ secrets = Idle /\ kch = Idle /\ vertices = Idle
    /\ ktree = Idle /\ valid_subscription = Idle

Encode ==
    /\ pc = "entry"
    /\ call.fn = "encode"
    /\ \E nonce1 \in Nonces, nonce2 \in Nonces :
          ret' = encode(encoder, call.channel, call.frame, call.timestamp,
                        nonce1, nonce2)
    /\ pc' = IF ret'.status = "raise" THEN "raised" ELSE "returned"
    /\ UNCHANGED <<call, coverVars, subVars, encoder>>

EncNext == Encode

SpecEnc == EncInit /\ [][EncNext]_vars

(***************************************************************************)
(* GlobalSecrets.derive_tree_key on its own (SpecKdf).                     *)
(***************************************************************************)
\* x >> n
Shr(x, n) == {j - n : j \in {k \in x : k >= n}}

KdfTimes == TopTimes \cup {{}, FromNat(5), HALF, Dec(HALF)}

\* the vertices on the paths to the timestamps of KdfTimes, and two records
\* whose prefix does not fit their bits
KdfVertices ==
    {Vertex(Shr(t, TIMESTAMP_BITS - b), b) :
        t \in KdfTimes, b \in 0..TIMESTAMP_BITS}
      \cup {Vertex(FromNat(5), 2), Vertex(FromNat(1), 0)}

KdfInit ==
    /\ call \in {[fn |-> "derive_tree_key", ch |-> c, vertex |-> v] :
                    c \in 0..MaxChannel, v \in KdfVertices}
    /\ secrets = deserialize(SecretsFile)
    /\ pc = "entry"
    /\ ret = NoOutcome
    /\ start = Idle /\ end = Idle /\ bits = 0
    /\ keys_front = <<>> /\ keys_back = <<>>
    /\ kch = Idle /\ vertices = Idle
    /\ ktree = Idle /\ valid_subscription = Idle /\ encoder = Idle

Derive ==
    /\ pc = "entry"
    /\ call.fn = "derive_tree_key"
    /\ ret' = derive_tree_key(secrets, call.ch, call.vertex)
    /\ pc' = IF ret'.status = "raise" THEN "raised" ELSE "returned"
    /\ UNCHANGED <<call, coverVars, subVars, encoder>>

KdfNext == Derive

SpecKdf == KdfInit /\ [][KdfNext]_vars

(***************************************************************************)
(* GlobalSecrets.generate, serialize and deserialize in turn (SpecSecrets).*)
(***************************************************************************)
MaxListLen == 3

\* channel ids of one, two and three decimal digits
ChannelIds == {0, 1, 9, 10, 101}

RECURSIVE ListsOf(_, _)
\* the lists of length n over S
ListsOf(S, n) ==
    IF n = 0 THEN {<<>>}
    ELSE {Append(l, x) : l \in ListsOf(S, n - 1), x \in S}

ChannelLists == UNION {ListsOf(ChannelIds, n) : n \in 0..MaxListLen}

SecretsInit ==
    /\ call \in {[fn |-> "generate", channels |-> l] : l \in ChannelLists}
    /\ pc = "entry"
    /\ ret = NoOutcome
    /\ secrets = Idle
    /\ start = Idle /\ end = Idle /\ bits = 0
    /\ keys_front = <<>> /\ keys_back = <<>>
    /\ kch = Idle /\ vertices = Idle
    /\ ktree = Idle /\ valid_subscription = Idle /\ encoder = Idle

\* secrets = GlobalSecrets.generate(channels)
Generate ==
    /\ pc = "entry"
    /\ call.fn = "generate"
    /\ secrets' = generate(call.channels)
    /\ pc' = "generated"
    /\ UNCHANGED <<call, ret, coverVars, kch, vertices, ktree,
                   valid_subscription, encoder>>

\* secrets.serialize()
Serialize ==
    /\ pc = "generated"
    /\ ret' = Return(serialize(secrets))
    /\ pc' = "serialized"
    /\ UNCHANGED <<call, coverVars, subVars, encoder>>

\* GlobalSecrets.deserialize(...) of the bytes just written
Deserialize ==
    /\ pc = "serialized"
    /\ ret' = Return(deserialize(ret.value))
    /\ pc' = "deserialized"
    /\ UNCHANGED <<call, coverVars, subVars, encoder>>

SecretsNext == Generate \/ Serialize \/ Deserialize

SpecSecrets == SecretsInit /\ [][SecretsNext]_vars

(***************************************************************************)
(* Claims about vertices_for_range (checked under SpecCover).              *)
(***************************************************************************)
\* the call's range is a valid one: 0 <= start <= end < 2^64
ValidRange(s, e) == LessEq(s, e) /\ IsU64(e)

CoverReturned == call.fn = "vertices_for_range" /\ pc = "returned"

\* first and last timestamp of the block a vertex covers:
\* prefix << (64 - bits) and that plus 2^(64 - bits) - 1
BlockFirst(v) == Shl(v.prefix, TIMESTAMP_BITS - v.bits)

BlockLast(v) ==
    Shl(v.prefix, TIMESTAMP_BITS - v.bits)
        \cup (0..(TIMESTAMP_BITS - v.bits - 1))

Tiles(vs, s, e) ==
    /\ Len(vs) >= 1
    /\ \A k \in 1..Len(vs) :
          /\ vs[k].bits \in 0..TIMESTAMP_BITS
          /\ FitsBits(vs[k].prefix, vs[k].bits)
    /\ BlockFirst(vs[1]) = s
    /\ \A k \in 1..(Len(vs) - 1) : BlockFirst(vs[k + 1]) = Inc(BlockLast(vs[k]))
    /\ BlockLast(vs[Len(vs)]) = e

\* C1: for every valid range the call returns, and the returned list, read in
\* order, tiles [start, end]: the first block begins at start, each later
\* block begins one past the end of the previous one, the last ends at end.
C1_CoverTiles ==
    /\ (pc = "raised" => ~ValidRange(call.start, call.end))
    /\ (CoverReturned /\ ValidRange(call.start, call.end)
            => Tiles(ret.value, call.start, call.end))

\* a range whose cover has several vertices on both sides has been returned
C1_Witness ==
    /\ CoverReturned
    /\ ValidRange(call.start, call.end)
    /\ Len(keys_front) >= 2
    /\ Len(keys_back) >= 2

\* the two children (2k, b) and (2k + 1, b) of one vertex (k, b - 1)
Mergeable(v, w) ==
    /\ v.bits = w.bits
    /\ v.bits >= 1
    /\ LowBit(v.prefix) = 0
    /\ w.prefix = Inc(v.prefix)

\* C2: no two adjacent vertices of a returned cover are the two children of
\* one vertex.
C2_NoAdjacentMergeable ==
    CoverReturned /\ ValidRange(call.start, call.end)
        => \A k \in 1..(Len(ret.value) - 1) :
                ~Mergeable(ret.value[k], ret.value[k + 1])

\* a cover with two adjacent vertices of the same level (which are not
\* siblings) has been returned
C2_Witness ==
    /\ CoverReturned
    /\ ValidRange(call.start, call.end)
    /\ \E k \in 1..(Len(ret.value) - 1) :
            /\ ret.value[k].bits = ret.value[k + 1].bits
            /\ ret.value[k + 1].prefix = Inc(ret.value[k].prefix)

\* [s, e] is exactly the block of the vertex (p, b)
IsBlockOf(s, e, p, b) ==
    /\ FitsBits(p, b)
    /\ s = Shl(p, TIMESTAMP_BITS - b)
    /\ e = Shl(p, TIMESTAMP_BITS - b) \cup (0..(TIMESTAMP_BITS - b - 1))

\* C4: when [start, end] is exactly the block of one vertex (p, b), the call
\* returns the one-element list [Vertex(p, b)]; in particular for the whole
\* timeline, for [8, 11] and for every one-timestamp range.
C4_SingleBlock ==
    CoverReturned /\ ValidRange(call.start, call.end)
        => /\ \A b \in 0..TIMESTAMP_BITS :
                LET p == Shr(call.start, TIMESTAMP_BITS - b)
                IN  IsBlockOf(call.start, call.end, p, b)
                        => ret.value = <<Vertex(p, b)>>
           /\ (call.start = {} /\ call.end = U64_MAX
                    => ret.value = <<Vertex({}, 0)>>)
           /\ (call.start = FromNat(8) /\ call.end = FromNat(11)
                    => ret.value = <<Vertex(FromNat(2), 62)>>)
           /\ (call.start = call.end
                    => ret.value = <<Vertex(call.start, TIMESTAMP_BITS)>>)

\* the whole timeline has been covered
C4_Witness ==
    /\ CoverReturned
    /\ call.start = {}
    /\ call.end = U64_MAX
    /\ bits = 0

\* C5 as stated: vertices_for_range(5, 10) returns
\* [Vertex(5, 64), Vertex(3, 62), Vertex(10, 64)].
C5_Original ==
    CoverReturned /\ call.start = FromNat(5) /\ call.end = FromNat(10)
        => ret.value = <<Vertex(FromNat(5), 64), Vertex(FromNat(3), 62),
                         Vertex(FromNat(10), 64)>>

\* C5 amended: vertices_for_range(5, 10) returns the four-vertex list
\* [Vertex(5, 64), Vertex(3, 63), Vertex(4, 63), Vertex(10, 64)]: the odd
\* front leaf, the blocks {6, 7} and {8, 9} one level above the leaves (which
\* are not siblings), and the even back leaf.
C5_Cover_5_10 ==
    call.fn = "vertices_for_range"
      /\ call.start = FromNat(5) /\ call.end = FromNat(10)
        => /\ pc # "raised"
           /\ (pc = "returned"
                 => ret.value = <<Vertex(FromNat(5), 64), Vertex(FromNat(3), 63),
                                  Vertex(FromNat(4), 63), Vertex(FromNat(10), 64)>>)

\* vertices_for_range(5, 10) has returned
C5_Witness ==
    CoverReturned /\ call.start = FromNat(5) /\ call.end = FromNat(10)

(***************************************************************************)
(* Claims about the subscription builder (checked under SpecSub).          *)
(***************************************************************************)
SubReturned ==
    /\ call.fn \in {"gen_embeddable_subscription", "gen_subscription"}
    /\ pc = "returned"

EmbeddableReturned ==
    call.fn = "gen_embeddable_subscription" /\ pc = "returned"

\* the j-th 16-byte slot of the ktree field of a packed ValidSubscription
KtreeSlot(sub, j) ==
    Slice(FieldBytes(ValidSubscription, sub, 1),
          (j - 1) * TREE_KEY_LEN, TREE_KEY_LEN)

RECURSIVE Descend(_, _, _, _)
\* n child steps from key, following bits n-1, ..., 0 of t: the left key for
\* a 0 bit, the right key for a 1 bit
Descend(self, key, t, n) ==
    IF n = 0 THEN key
    ELSE LET child == kdf_tree_child(key, IF (n - 1) \in t
                                          THEN self.right_tree_key
                                          ELSE self.left_tree_key)
         IN  IF child.status # "return" THEN <<>>
             ELSE Descend(self, child.value, t, n - 1)

\* the tree key encode() hashes into the frame key of timestamp t
LeafTreeKey(self, channel, t) ==
    derive_tree_key(self, channel, Vertex(t, TIMESTAMP_BITS)).value

\* the leaf key of t is reached from one of the n keys of the subscription,
\* by the descent that follows the bits of t below that key's vertex
Authorizes(self, sub, vs, channel, t) ==
    \E j \in 1..Len(vs) :
        Descend(self, KtreeSlot(sub, j), t, TIMESTAMP_BITS - vs[j].bits)
            = LeafTreeKey(self, channel, t)

\* vertex v is a bit-prefix of t
IsPrefixOf(v, t) == Shr(t, TIMESTAMP_BITS - v.bits) = v.prefix

\* the timestamps probed: those next to the endpoints of the range, the
\* small ones, and those at the top and in the middle of the timeline
ProbeTimes(s, e) ==
    {s, e, Inc(s), Inc(e)} \cup (IF s = {} THEN {} ELSE {Dec(s), Dec(e)})
      \cup {FromNat(n) : n \in 0..3} \cup {U64_MAX, HALF, Dec(HALF)}

\* C3: a subscription authorizes exactly its interval: the leaf tree key of
\* a timestamp t is reached by descent from one of the keys in ktree if and
\* only if start <= t <= end, and then exactly one cover vertex is a
\* bit-prefix of t.
C3_AuthorizesExactlyInterval ==
    (EmbeddableReturned /\ call.device_id = FromNat(1))
        => \A t \in {u \in ProbeTimes(call.start, call.end) : IsU64(u)} :
              LET inside == LessEq(call.start, t) /\ LessEq(t, call.end)
              IN  /\ Authorizes(secrets, ret.value, vertices, call.channel, t)
                        <=> inside
                  /\ inside =>
                        Cardinality({j \in 1..Len(vertices) :
                                        IsPrefixOf(vertices[j], t)}) = 1

\* a subscription of several keys has been returned, for a range with
\* timestamps on both sides of it
C3_Witness ==
    /\ EmbeddableReturned
    /\ call.device_id = FromNat(1)
    /\ Len(vertices) >= 3
    /\ call.start # {}
    /\ call.end # U64_MAX
    /\ Authorizes(secrets, ret.value, vertices, call.channel, call.end)
    /\ ~Authorizes(secrets, ret.value, vertices, call.channel, Inc(call.end))

\* number of bits of x: the least W with x < 2^W
BitLength(x) == IF x = {} THEN 0 ELSE Max(x) + 1

\* C6: the cover of a valid range has at most MAX_TREE_KEYS = 126 vertices
\* (at most 2 * (W - 1) when end < 2^W, W >= 2), so a returned
\* ValidSubscription has key_count <= 126 and its ktree field holds every
\* key derived for the cover.
C6_CoverFitsKtree ==
    /\ (/\ pc \in {"for", "sign", "returned"}
         /\ call.fn \in {"gen_embeddable_subscription", "gen_subscription"})
          => /\ Len(vertices) <= MAX_TREE_KEYS
             /\ \A W \in 2..TIMESTAMP_BITS :
                    BitLength(call.end) <= W => Len(vertices) <= 2 * (W - 1)
    /\ EmbeddableReturned
          => /\ FieldBytes(ValidSubscription, ret.value, 6)
                    = PackUInt(FromNat(Len(vertices)), FieldI)
             /\ Len(vertices) <= MAX_TREE_KEYS
             /\ ByteLen(ktree) = Len(vertices) * TREE_KEY_LEN
             /\ TakeBytes(FieldBytes(ValidSubscription, ret.value, 1),
                          ByteLen(ktree)) = ktree

\* a subscription with 126 keys has been returned
C6_Witness ==
    /\ EmbeddableReturned
    /\ Len(vertices) = 126
    /\ KtreeSlot(ret.value, 126) = SubSeq(ktree, 126, 126)

\* C10: with a known channel and start > end, both functions end by raising
\* (the assertion of vertices_for_range fails in its first iteration): no
\* bytes are returned, no vertex is emitted and no key is derived.
C10_StartAfterEndRaises ==
    (/\ call.fn \in {"gen_embeddable_subscription", "gen_subscription"}
     /\ call.channel \in DictKeys(deserialize(call.secrets).channel_keys)
     /\ Less(call.end, call.start))
        => /\ pc \in {"entry", "while", "raised"}
           /\ pc = "while" => LoopCond(Locals) /\ ~LoopAssert(Locals)
           /\ pc = "raised" => ret = Raise("AssertionError")
           /\ ret.status # "return"
           /\ keys_front = <<>> /\ keys_back = <<>>
           /\ vertices = Idle /\ ktree = <<>> /\ valid_subscription = Idle

\* gen_subscription has raised on a range with start > end
C10_Witness ==
    /\ call.fn = "gen_subscription"
    /\ call.channel \in DictKeys(deserialize(call.secrets).channel_keys)
    /\ Less(call.end, call.start)
    /\ pc = "raised"

(***************************************************************************)
(* Claim about derive_tree_key (checked under SpecKdf).                    *)
(***************************************************************************)
RECURSIVE StepKey(_, _, _, _)
\* the key after the child steps i, ..., v.bits of the walk to vertex v,
\* from the key reached by the steps before them: step i uses the right key
\* if bit (v.bits - i) of the prefix is 1, else the left key
StepKey(self, key, v, i) ==
    IF i > v.bits THEN key
    ELSE LET child == kdf_tree_child(key, IF (v.bits - i) \in v.prefix
                                          THEN self.right_tree_key
                                          ELSE self.left_tree_key)
         IN  IF child.status # "return" THEN <<>>
             ELSE StepKey(self, child.value, v, i + 1)

\* C7: for a known channel and a vertex with prefix < 2^bits,
\* derive_tree_key returns the root key after exactly `bits` child steps,
\* most significant bit first (the root key itself for bits = 0);
\* equivalently the key of (2p + d, b + 1) is the child of the key of (p, b)
\* under the left key for d = 0 and the right key for d = 1.
C7_DeriveIsMsbFirstDescent ==
    (/\ call.fn = "derive_tree_key"
     /\ call.ch \in DictKeys(secrets.tree_root_keys)
     /\ FitsBits(call.vertex.prefix, call.vertex.bits))
        => /\ pc # "raised"
           /\ pc = "returned" =>
                /\ ret = Return(StepKey(secrets,
                                     DictGet(secrets.tree_root_keys, call.ch),
                                     call.vertex, 1))
                /\ call.vertex.bits = 0 =>
                        ret.value = DictGet(secrets.tree_root_keys, call.ch)
                /\ call.vertex.bits >= 1 =>
                        ret = kdf_tree_child(
                                derive_tree_key(
                                    secrets, call.ch,
                                    Vertex(Shr1(call.vertex.prefix),
                                           call.vertex.bits - 1)).value,
                                IF LowBit(call.vertex.prefix) = 0
                                THEN secrets.left_tree_key
                                ELSE secrets.right_tree_key)

\* the key of a leaf whose path turns both ways has been derived
C7_Witness ==
    /\ call.fn = "derive_tree_key"
    /\ pc = "returned"
    /\ call.vertex = Vertex(FromNat(5), TIMESTAMP_BITS)

(***************************************************************************)
(* Claims about Encoder.encode (checked under SpecEnc).                    *)
(***************************************************************************)
\* C8: encode with a channel that is not in channel_keys ends in an error
\* surfaced to the caller; it does not return a value.
C8_UnknownChannelRaises ==
    (/\ call.fn = "encode"
     /\ call.channel \notin DictKeys(encoder.channel_keys)
     /\ pc # "entry")
        => pc = "raised" /\ ret.status = "raise"

\* C9: a frame longer than 64 bytes is rejected with an error and no packet
\* is produced.
C9_OversizedFrameRejected ==
    (/\ call.fn = "encode"
     /\ call.channel \in DictKeys(encoder.channel_keys)
     /\ ByteLen(call.frame) > MAX_FRAME_SIZE
     /\ pc # "entry")
        => pc = "raised" /\ ret.status = "raise"

(***************************************************************************)
(* Claims about GlobalSecrets (checked under SpecSecrets).                 *)
(***************************************************************************)
\* set(channels)
ListSet(l) == {l[k] : k \in 1..Len(l)}

\* C11: for every list channels (with duplicates, with 0, or empty),
\* generate(channels) returns a bundle whose channel_keys and
\* tree_root_keys have the same key set, set(channels) \cup {0}.
C11_KeySetsAreChannelsAndZero ==
    (call.fn = "generate" /\ pc # "entry")
        => /\ DictKeys(secrets.channel_keys) = ListSet(call.channels) \cup {0}
           /\ DictKeys(secrets.tree_root_keys) = ListSet(call.channels) \cup {0}
           /\ DictKeys(secrets.channel_keys) = DictKeys(secrets.tree_root_keys)

\* a bundle has been generated from a list with a duplicate and without 0
C11_Witness ==
    /\ call.fn = "generate"
    /\ pc = "generated"
    /\ call.channels = <<10, 1, 10>>
    /\ DictKeys(secrets.channel_keys) = {0, 1, 10}

\* C12: deserialize(generate(channels).serialize()) equals the generated
\* bundle field for field: the integer channel ids, written as decimal
\* strings in the JSON object, come back as the same integers with the same
\* keys in both per-channel maps.
C12_SerializeRoundTrip ==
    (call.fn = "generate" /\ pc = "deserialized")
        => /\ ret.status = "return"
           /\ ret.value = secrets
           /\ \A f \in DOMAIN secrets : ret.value[f] = secrets[f]
           /\ \A ch \in ListSet(call.channels) \cup {0} :
                /\ DictGet(ret.value.channel_keys, ch) = DictGet(secrets.channel_keys, ch)
                /\ DictGet(ret.value.tree_root_keys, ch) = DictGet(secrets.tree_root_keys, ch)

\* a bundle with channel ids of one, two and three digits has come back
C12_Witness ==
    /\ call.fn = "generate"
    /\ pc = "deserialized"
    /\ ListSet(call.channels) = {9, 10, 101}
    /\ DictKeys(ret.value.channel_keys) = {0, 9, 10, 101}

(***************************************************************************)
(* Claims about the bytes of a subscription (checked under SpecSub).       *)
(***************************************************************************)
\* the fields the ValidSubscription of (start, end, channel) must carry,
\* computed from the secrets file and these three arguments only
ExpectedFields(secrets_bytes, s, e, channel) ==
    LET self == deserialize(secrets_bytes)
        vs == vertices_for_range(s, e).value
        keys == [k \in 1..Len(vs) |-> derive_tree_key(self, channel, vs[k]).value]
    IN  [n |-> Len(vs),
         keys |-> keys,
         kch |-> DictGet(self.channel_keys, channel)]

\* C13: a successful gen_embeddable_subscription returns exactly 2080
\* bytes with key_count = n, the number of vertices of
\* vertices_for_range(start, end); slot i of ktree is derive_tree_key(channel,
\* vertices[i]) in cover order; the slots from n to 125 are zero; kch is
\* channel_keys[channel]; start, end and channel are as given; magic is
\* 0x41594E42. No field depends on device_id.
C13_ValidSubscriptionLayout ==
    EmbeddableReturned
        => LET sub == ret.value
               x == ExpectedFields(call.secrets, call.start, call.end,
                                   call.channel)
               field(i) == FieldBytes(ValidSubscription, sub, i)
           IN  /\ ByteLen(sub) = 2080
               /\ field(6) = PackUInt(FromNat(x.n), FieldI)
               /\ x.n <= MAX_TREE_KEYS
               /\ \A i \in 1..x.n : KtreeSlot(sub, i) = x.keys[i]
               /\ DropBytes(field(1), x.n * TREE_KEY_LEN)
                    = Zeros((MAX_TREE_KEYS - x.n) * TREE_KEY_LEN)
               /\ field(2) = x.kch
               /\ field(3) = PackUInt(call.start, FieldQ)
               /\ field(4) = PackUInt(call.end, FieldQ)
               /\ field(5) = PackUInt(FromNat(call.channel), FieldI)
               /\ field(7) = PackUInt(FromNat(1096371778), FieldI)
               /\ field(8) = Zeros(4)
               /\ ret = gen_embeddable_subscription(
                            call.secrets, {}, call.start, call.end,
                            call.channel)

\* a subscription of several keys, not all of one level, has been returned
\* for a device id that is not a u32
C13_Witness ==
    /\ EmbeddableReturned
    /\ call.device_id = Pow2(32)
    /\ call.start = FromNat(1)
    /\ call.end = FromNat(6)
    /\ Len(vertices) = 4

\* C14: a successful gen_subscription returns 2188 bytes, payload + sig: the
\* 2124-byte payload is the u32 device_id followed by
\* encrypt_symmetric(E, derive_id_key(device_id)), E being the 2080-byte
\* embeddable subscription of the same (start, end, channel), and sig is the
\* signature under enc_private_key of the whole payload, device id included.
C14_SubscriptionUpdateLayout ==
    (call.fn = "gen_subscription" /\ pc = "returned")
        => LET self == deserialize(call.secrets)
               payload == Slice(ret.value, 0, 2124)
               sig == Slice(ret.value, 2124, 64)
               E == gen_embeddable_subscription(
                        call.secrets, call.device_id, call.start, call.end,
                        call.channel).value
               kid == derive_id_key(self, call.device_id).value
           IN  /\ ByteLen(ret.value) = 2188
               /\ valid_subscription = E
               /\ ByteLen(valid_subscription) = 2080
               /\ Slice(payload, 0, 4) = PackUInt(call.device_id, FieldI)
               /\ \E nonce \in Nonces :
                    Slice(payload, 4, 2120)
                        = encrypt_symmetric(valid_subscription, kid,
                                            nonce).value
               /\ sig = sign_asymmetric(payload, self.enc_private_key).value
               /\ sig # sign_asymmetric(Slice(payload, 4, 2120),
                                        self.enc_private_key).value

\* a signed update for device 0xDEADBEEF has been returned
C14_Witness ==
    /\ call.fn = "gen_subscription"
    /\ pc = "returned"
    /\ call.device_id = DEADBEEF
    /\ call.start = FromNat(1)
    /\ call.end = FromNat(6)
    /\ ByteLen(ret.value) = 2188

(***************************************************************************)
(* Claim about the layers of a frame packet (checked under SpecEnc).       *)
(***************************************************************************)
\* encode has returned a packet for a channel the encoder knows
EncodeReturned ==
    /\ call.fn = "encode"
    /\ pc = "returned"
    /\ call.channel \in DictKeys(encoder.channel_keys)

\* C15: the 228-byte result of a successful encode nests three layers: the
\* innermost ciphertext is FrameData{len(frame), frame} under
\* kdf_tree_leaf(derive_tree_key(channel, Vertex(timestamp, 64))); FrameCh
\* carries the same timestamp and that ciphertext and is encrypted under
\* channel_keys[channel]; the 164-byte payload is channel_id followed by
\* that second ciphertext; the last 64 bytes sign exactly the payload under
\* enc_private_key.
C15_PacketNesting ==
    EncodeReturned
        => LET packet == ret.value
               payload == Slice(packet, 0, 164)
               signature == Slice(packet, 164, 64)
               enc_timestamp == Slice(payload, 4, 160)
               frame_data ==
                   PackUInt(FromNat(ByteLen(call.frame)), FieldI)
                     \o PackS(call.frame, MAX_FRAME_SIZE)
               ktree_leaf ==
                   kdf_tree_leaf(
                       derive_tree_key(encoder.keys, call.channel,
                                       Vertex(call.timestamp, 64)).value).value
           IN  /\ ByteLen(packet) = 228
               /\ signature
                    = sign_asymmetric(payload, encoder.keys.enc_private_key).value
               /\ Slice(payload, 0, 4) = PackUInt(FromNat(call.channel), FieldI)
               /\ ByteLen(ktree_leaf) = SYMMETRIC_KEY_LEN
               /\ \E nonce1 \in Nonces, nonce2 \in Nonces :
                    LET enc_frame ==
                            encrypt_symmetric(frame_data, ktree_leaf,
                                              nonce1).value
                        frame_ch == PackUInt(call.timestamp, FieldQ)
                                      \o enc_frame \o Zeros(4)
                    IN  /\ ByteLen(enc_frame) = 108
                        /\ ByteLen(frame_ch) = 120
                        /\ enc_timestamp
                             = encrypt_symmetric(
                                   frame_ch,
                                   DictGet(encoder.keys.channel_keys, call.channel),
                                   nonce2).value

\* a packet with a full 64-byte frame at timestamp 2^63 has been returned
C15_Witness ==
    /\ EncodeReturned
    /\ ByteLen(call.frame) = MAX_FRAME_SIZE
    /\ call.timestamp = HALF
    /\ call.channel = 1
    /\ ByteLen(ret.value) = 228

(***************************************************************************)
(* Claim about the loop of vertices_for_range (checked under               *)
(* SpecCoverFair).                                                         *)
(***************************************************************************)
\* x - y for x >= y: bit i of the difference is the exclusive or of the
\* bits i of x and y and of the borrow into position i, which is 1 when the
\* bits of x below i are a smaller number than those of y
Sub(x, y) ==
    {i \in 0..Max(x \cup {0}) :
        ((i \in x) # (i \in y))
            # Less({j \in x : j < i}, {j \in y : j < i})}

ValidCoverCall ==
    call.fn = "vertices_for_range" /\ ValidRange(call.start, call.end)

\* every vertex of the list is within its level, and the level is in 0..64
VerticesFit(vs) ==
    \A k \in 1..Len(vs) :
        vs[k].bits \in 0..TIMESTAMP_BITS /\ FitsBits(vs[k].prefix, vs[k].bits)

\* what holds whenever the loop condition is about to be tested
C16_LoopInvariant ==
    /\ pc # "raised"
    /\ bits \in 0..TIMESTAMP_BITS
    /\ VerticesFit(keys_front) /\ VerticesFit(keys_back)
    /\ pc = "while" => LessEq(start, end) /\ FitsBits(end, bits)
    /\ pc = "returned" => VerticesFit(ret.value)

\* what one iteration does to bits and to end - start
C16_Iteration ==
    (ValidCoverCall /\ pc = "while" /\ pc' = "while")
        => /\ bits' <= bits
           /\ Less(Sub(end', start'), Sub(end, start))

\* C16: for 0 <= start <= end < 2^64 the loop of vertices_for_range
\* terminates and no assertion fails: at every iteration start <= end, bits
\* stays within 0..64 and only decreases, end - start strictly decreases,
\* and every Vertex constructed has 0 <= prefix < 2^bits.
C16_LoopTerminates ==
    /\ [](ValidCoverCall => C16_LoopInvariant)
    /\ [][C16_Iteration]_vars
    /\ [](ValidCoverCall => <>(pc = "returned"))

\* the longest run (126 vertices, down to level 1) has returned
C16_Witness ==
    /\ CoverReturned
    /\ call.start = FromNat(1)
    /\ call.end = Minus(U64_MAX, 1)
    /\ Len(ret.value) = 126
    /\ bits < 3

====
